---------------------------- MODULE Spec2Model ----------------------------
(***************************************************************************)
(* Hierarchical advisory locking of zero/locking.py: PathLock builds one   *)
(* NodeLock per partial path, acquires them root to leaf with bounded      *)
(* retry, and high-priority waiters post abort-request marker files.       *)
(* Every process runs PathLocks one after another; a step of a process is  *)
(* one system call (exists, mkdir, flock, open, remove) with the local     *)
(* code that follows it.                                                   *)
(***************************************************************************)
EXTENDS Integers, Sequences, FiniteSets, TLC

\* ------------------------------------------------------------------ bounds
MaxRetries == 1     \* largest acquisition_max_retries a caller passes
MaxLeaked == 2      \* open handles of abandoned PathLocks, over all processes (SpecKeep)
ScenarioRetries == 3    \* acquisition_max_retries of the waiter of SpecScenario

Procs == {"p1", "p2", "p3"}
\* The processes that run in the specifications of two processes.
Pair == {"p1", "p2"}

\* --------------------------------------------------------------- constants
\* A path is the sequence of its characters.
PathA    == <<"/", "a">>
PathAS   == <<"/", "a", "/">>
PathAB   == <<"/", "a", "/", "b">>
PathABS  == <<"/", "a", "/", "b", "/">>
PathABC  == <<"/", "a", "/", "b", "/", "c">>
PathX    == <<"/", "x">>
PathXY   == <<"/", "x", "/", "y">>

\* The arguments of PathLock(...) over the paths P with the given choices of
\* exclusive_lock_on_path, exclusive_lock_on_leaf and acquisition_max_retries.
ArgsOver(P, EP, EL, R) ==
    [path : P, exclusive_lock_on_path : EP, exclusive_lock_on_leaf : EL,
     high_priority : BOOLEAN, acquisition_max_retries : R]

\* What callers lock in Spec: /a and /a/b, shared on the path, without retry or
\* with MaxRetries retries.
Menu == ArgsOver({PathA, PathAB}, {FALSE}, BOOLEAN, {0, MaxRetries})

\* What callers lock in SpecDisjoint: one process the tree /a, the other the
\* tree /x, in every mode.
TreeMenu(p) ==
    IF p = "p1" THEN ArgsOver({PathA, PathAB, PathABC}, BOOLEAN, BOOLEAN, {0})
    ELSE ArgsOver({PathX, PathXY}, BOOLEAN, BOOLEAN, {0})

\* What callers lock in SpecPoll: /a or /a/b, without retries.
PollMenu == ArgsOver({PathA, PathAB}, {FALSE}, BOOLEAN, {0})

\* What callers lock in SpecCrowd, where three processes run: /a, with high
\* priority and MaxRetries retries.
CrowdMenu ==
    {a \in ArgsOver({PathA}, {FALSE}, BOOLEAN, {MaxRetries}) : a.high_priority}

\* What callers lock in SpecKeep: /a/b, shared on the path.
KeepMenu == ArgsOver({PathAB}, {FALSE}, BOOLEAN, {0, MaxRetries})

\* What PathLock is constructed over in SpecConstruct.
AllArgs ==
    ArgsOver({PathA, PathAS, PathAB, PathABS, PathABC, PathX, PathXY}, BOOLEAN, BOOLEAN,
             0..MaxRetries)

LOCKDIR == "/tmp/zero-locks/"
ABORT_REQUEST_DIR == "/tmp/zero-abort-requests/"

NodeLockedException == "NodeLockedException"
FileExistsError     == "FileExistsError"
FileNotFoundError   == "FileNotFoundError"

\* ------------------------------------------------------------ path_utils
\* The characters of s with leading and trailing separators removed.
RECURSIVE StripLeft(_)
StripLeft(s) ==
    IF s # <<>> /\ Head(s) = "/" THEN StripLeft(Tail(s)) ELSE s

RECURSIVE StripRight(_)
StripRight(s) ==
    IF s # <<>> /\ s[Len(s)] = "/" THEN StripRight(SubSeq(s, 1, Len(s) - 1)) ELSE s

\* The lengths at which a partial path of s ends: before a separator or at the end.
Cuts(s) ==
    {k \in 1..Len(s) : s[k] # "/" /\ (k = Len(s) \/ s[k + 1] = "/")}

RECURSIVE SortedCuts(_)
SortedCuts(ks) ==
    IF ks = {} THEN <<>>
    ELSE LET m == CHOOSE k \in ks : \A j \in ks : k <= j
         IN <<m>> \o SortedCuts(ks \ {m})

\* yield_partials(path): the partial paths of path, root to leaf.
yield_partials(pth) ==
    LET s == StripRight(StripLeft(pth))
        ks == SortedCuts(Cuts(s))
    IN [n \in 1..Len(ks) |-> SubSeq(s, 1, ks[n])]

\* The inode store: one inode number per partial path.
inode_store ==
    (<<"a">> :> 11) @@ (<<"a", "/", "b">> :> 12)
    @@ (<<"a", "/", "b", "/", "c">> :> 13)
    @@ (<<"x">> :> 21) @@ (<<"x", "/", "y">> :> 22)

get_inode(store, partial) == store[partial]

Inodes == {inode_store[q] : q \in DOMAIN inode_store}

\* ---------------------------------------------------------------- NodeLock
\* NodeLock.__init__: the fields of a node lock; lock is the state of self.lock
\* ("none": not yet created, "acquired": flock held, "unlocked": no file handle).
NodeLock(inode, exclusive, acquisition_max_retries, high_priority) ==
    [inode |-> inode,
     exclusive |-> exclusive,
     acquisition_max_retries |-> acquisition_max_retries,
     high_priority |-> high_priority,
     lock |-> "none"]

\* Mutant of PathLock_init: the leaf gets the mode of the path.
PathLock_init_leaf_as_path(pth, store, exclusive_lock_on_path, exclusive_lock_on_leaf, high_priority, acquisition_max_retries) ==
    LET partials == yield_partials(pth)
    IN [k \in 1..Len(partials) |->
          NodeLock(get_inode(store, partials[k]), exclusive_lock_on_path,
                   acquisition_max_retries, high_priority)]

\* PathLock.__init__: the list self.locks.
PathLock_init(pth, store, exclusive_lock_on_path, exclusive_lock_on_leaf, high_priority, acquisition_max_retries) ==
    LET partials == yield_partials(pth)
        n == Len(partials)
    IN [k \in 1..n |->
          IF k < n
          THEN NodeLock(get_inode(store, partials[k]), exclusive_lock_on_path,
                        acquisition_max_retries, high_priority)
          ELSE NodeLock(get_inode(store, partials[k]), exclusive_lock_on_leaf,
                        acquisition_max_retries, high_priority)]

VARIABLES
    pc,        \* pc[p]: where process p stands
    locks,     \* locks[p]: self.locks of p's current PathLock
    i,         \* i[p]: index in self.locks of the node being acquired or released
    tries,     \* tries[p]: try-lock attempts made on node i[p] so far
    sleeps,    \* sleeps[p]: time.sleep calls made while acquiring node i[p]
    fresh,     \* fresh[p]: p's PathLock repeats its last one, which was acquired and
               \* released, and no other process has held a node of its path since
    leaked,    \* leaked[p]: handles still open that belong to abandoned PathLocks of p
    err,       \* err[p]: the exception that left __enter__, or how the body ended
    lockdir,   \* LOCKDIR exists
    abortdir,  \* ABORT_REQUEST_DIR exists
    abort,     \* the inodes with a marker file in ABORT_REQUEST_DIR
    args,      \* args[p]: the arguments p's current PathLock was constructed with
    polled,    \* polled[p]: what the last abort_requested() of p's PathLock returned
    superseded \* history: the pending markers posted before the last successful
               \* flock on their node

vars == <<pc, locks, i, tries, sleeps, fresh, leaked, err,
          lockdir, abortdir, abort, args, polled, superseded>>

NoArgs == [path |-> <<>>, exclusive_lock_on_path |-> FALSE,
           exclusive_lock_on_leaf |-> TRUE, high_priority |-> FALSE,
           acquisition_max_retries |-> 0]

Init ==
    /\ pc = [p \in Procs |-> "idle"]
    /\ locks = [p \in Procs |-> <<>>]
    /\ i = [p \in Procs |-> 1]
    /\ tries = [p \in Procs |-> 0]
    /\ sleeps = [p \in Procs |-> 0]
    /\ fresh = [p \in Procs |-> FALSE]
    /\ leaked = [p \in Procs |-> {}]
    /\ err = [p \in Procs |-> "none"]
    /\ lockdir = FALSE
    /\ abortdir = FALSE
    /\ abort = {}
    /\ args = [p \in Procs |-> NoArgs]
    /\ polled = [p \in Procs |-> "none"]
    /\ superseded = {}

\* ------------------------------------------------------------ lock registry
\* Line 117: the lock file of a node lock.
LockFileName(nl) == <<LOCKDIR, nl.inode>>

\* _get_abort_request_file_name: the marker file of a node lock.
AbortRequestFileName(nl) == <<ABORT_REQUEST_DIR, nl.inode>>

\* Mutant of get_flags: every lock asks for LOCK_SH.
get_flags_always_shared(nl) == "LOCK_SH"

\* _get_flags: the flock operation of a node lock (LOCK_NB goes with both).
get_flags(nl) == IF nl.exclusive THEN "LOCK_EX" ELSE "LOCK_SH"

\* The open lock handle of an acquired node lock.
Handle(nl) ==
    [file |-> LockFileName(nl), exclusive |-> nl.exclusive, flags |-> get_flags(nl)]

\* The handles p's current PathLock holds: its acquired node locks.
Handles(p) ==
    {Handle(locks[p][k]) : k \in {j \in DOMAIN locks[p] : locks[p][j].lock = "acquired"}}

\* Every flock held on a lock file, with the process that holds it.
Holders(file) ==
    UNION {{<<p, h>> : h \in {g \in Handles(p) \cup leaked[p] : g.file = file}} :
           p \in Procs}

\* Mutant of Conflicting: every holder refuses every request.
Conflicting_any_holder(nl) == Holders(LockFileName(nl))

\* flock: LOCK_EX is refused while anyone holds the file, LOCK_SH while a
\* LOCK_EX holder does.
Conflicting(nl) ==
    {ph \in Holders(LockFileName(nl)) :
        get_flags(nl) = "LOCK_EX" \/ ph[2].flags = "LOCK_EX"}

\* Mutant of Iter: the loops run leaf to root.
Iter_reversed(ls, k) == Len(ls) + 1 - k

\* for lock in self.locks: the index of the k-th lock the loop visits.
Iter(ls, k) == k

Cur(p) == locks[p][Iter(locks[p], i[p])]

\* The lock files of p's PathLock.
ChainFiles(ls) == {LockFileName(ls[k]) : k \in DOMAIN ls}

\* ------------------------------------------------------- NodeLock.__enter__
\* Lines 85-93 after a try-lock that returned False, t attempts made so far: the
\* loop sleeps and tries again while iterations remain, else NodeLockedException.
\* Mutant of RetryOrRaise: one attempt less.
RetryOrRaise_one_attempt_less(p, t) ==
    IF t < Cur(p).acquisition_max_retries
    THEN /\ pc' = [pc EXCEPT ![p] = "enter"]
         /\ sleeps' = [sleeps EXCEPT ![p] = @ + 1]
         /\ err' = err
    ELSE /\ pc' = [pc EXCEPT ![p] = "raised"]
         /\ sleeps' = sleeps
         /\ err' = [err EXCEPT ![p] = NodeLockedException]

RetryOrRaise(p, t) ==
    IF t <= Cur(p).acquisition_max_retries
    THEN /\ pc' = [pc EXCEPT ![p] = "enter"]
         /\ sleeps' = [sleeps EXCEPT ![p] = @ + 1]
         /\ err' = err
    ELSE /\ pc' = [pc EXCEPT ![p] = "raised"]
         /\ sleeps' = sleeps
         /\ err' = [err EXCEPT ![p] = NodeLockedException]

\* Lines 56-58 and 84 after a node is acquired: the next node, or the body.
Advance(p) ==
    /\ tries' = [tries EXCEPT ![p] = 0]
    /\ sleeps' = [sleeps EXCEPT ![p] = 0]
    /\ IF i[p] < Len(locks[p])
       THEN i' = [i EXCEPT ![p] = @ + 1] /\ pc' = [pc EXCEPT ![p] = "enter"]
       ELSE i' = i /\ pc' = [pc EXCEPT ![p] = "held"]

\* Mutant of Acquire: a refused lock goes on to _request_abort whatever its
\* priority.
Acquire_always_requests(p) ==
    LET c == Conflicting(Cur(p))
    IN /\ tries' = [tries EXCEPT ![p] = @ + 1]
       /\ IF c = {}
          THEN /\ locks' = [locks EXCEPT ![p][Iter(locks[p], i[p])].lock = "acquired"]
               /\ pc' = [pc EXCEPT ![p] = "clear"]
               /\ fresh' = [q \in Procs |->
                               /\ fresh[q]
                               /\ q = p \/ LockFileName(Cur(p)) \notin ChainFiles(locks[q])]
               /\ superseded' = superseded \cup ({AbortRequestFileName(Cur(p))} \cap abort)
               /\ UNCHANGED <<sleeps, err>>
          ELSE /\ locks' = [locks EXCEPT ![p][Iter(locks[p], i[p])].lock = "unlocked"]
               /\ fresh' = fresh
               /\ superseded' = superseded
               /\ pc' = [pc EXCEPT ![p] = "post"]
               /\ UNCHANGED <<sleeps, err>>
       /\ UNCHANGED <<i, leaked, lockdir, abortdir, abort, args, polled>>

\* Lines 116-126: portalocker.Lock(...).acquire() with fail_when_locked, one
\* flock attempt; on AlreadyLocked a high-priority lock goes on to _request_abort.
Acquire(p) ==
    LET c == Conflicting(Cur(p))
    IN /\ tries' = [tries EXCEPT ![p] = @ + 1]
       /\ IF c = {}
          THEN /\ locks' = [locks EXCEPT ![p][Iter(locks[p], i[p])].lock = "acquired"]
               /\ pc' = [pc EXCEPT ![p] = "clear"]
               /\ fresh' = [q \in Procs |->
                               /\ fresh[q]
                               /\ q = p \/ LockFileName(Cur(p)) \notin ChainFiles(locks[q])]
               /\ superseded' = superseded \cup ({AbortRequestFileName(Cur(p))} \cap abort)
               /\ UNCHANGED <<sleeps, err>>
          ELSE /\ locks' = [locks EXCEPT ![p][Iter(locks[p], i[p])].lock = "unlocked"]
               /\ fresh' = fresh
               /\ superseded' = superseded
               /\ IF Cur(p).high_priority
                  THEN /\ pc' = [pc EXCEPT ![p] = "post"]
                       /\ UNCHANGED <<sleeps, err>>
                  ELSE RetryOrRaise(p, tries[p] + 1)
       /\ UNCHANGED <<i, leaked, lockdir, abortdir, abort, args, polled>>

\* _try_locking, lines 105-121, when it starts: os.path.exists(LOCKDIR), and the
\* flock attempt when the directory is there.
TryLocking(p) ==
    /\ pc[p] = "enter"
    /\ IF lockdir
       THEN Acquire(p)
       ELSE /\ pc' = [pc EXCEPT ![p] = "mkdir_lock"]
            /\ UNCHANGED <<locks, i, tries, sleeps, fresh, leaked, err,
                           lockdir, abortdir, abort, args, polled, superseded>>

\* Line 107: os.mkdir(LOCKDIR), which raises FileExistsError when the directory
\* was made since line 106 looked.
MkLockDir(p) ==
    /\ pc[p] = "mkdir_lock"
    /\ IF lockdir
       THEN /\ pc' = [pc EXCEPT ![p] = "raised"]
            /\ err' = [err EXCEPT ![p] = FileExistsError]
            /\ lockdir' = lockdir
       ELSE /\ pc' = [pc EXCEPT ![p] = "flock"]
            /\ lockdir' = TRUE
            /\ err' = err
    /\ UNCHANGED <<locks, i, tries, sleeps, fresh, leaked, abortdir,
                   abort, args, polled, superseded>>

\* Lines 116-126 after line 107 made the directory.
Flock(p) ==
    /\ pc[p] = "flock"
    /\ Acquire(p)

\* _remove_abort_request, line 141: abort_requested() after a successful flock.
RemoveAbortRequest(p) ==
    /\ pc[p] = "clear"
    /\ IF AbortRequestFileName(Cur(p)) \in abort
       THEN /\ pc' = [pc EXCEPT ![p] = "remove"]
            /\ UNCHANGED <<i, tries, sleeps>>
       ELSE Advance(p)
    /\ UNCHANGED <<locks, fresh, leaked, err, lockdir, abortdir, abort,
                   args, polled, superseded>>

\* Line 142: os.remove of the marker, FileNotFoundError when it is gone.
OsRemove(p) ==
    /\ pc[p] = "remove"
    /\ IF AbortRequestFileName(Cur(p)) \in abort
       THEN /\ abort' = abort \ {AbortRequestFileName(Cur(p))}
            /\ superseded' = superseded \ {AbortRequestFileName(Cur(p))}
            /\ Advance(p)
            /\ err' = err
       ELSE /\ pc' = [pc EXCEPT ![p] = "raised"]
            /\ err' = [err EXCEPT ![p] = FileNotFoundError]
            /\ UNCHANGED <<abort, superseded, i, tries, sleeps>>
    /\ UNCHANGED <<locks, fresh, leaked, lockdir, abortdir, args, polled>>

\* _request_abort, lines 145 and 147: os.path.exists(ABORT_REQUEST_DIR), and the
\* marker file when the directory is there; then back in __enter__.
RequestAbort(p) ==
    /\ pc[p] = "post"
    /\ IF abortdir
       THEN /\ abort' = abort \cup {AbortRequestFileName(Cur(p))}
            /\ superseded' = superseded \ {AbortRequestFileName(Cur(p))}
            /\ RetryOrRaise(p, tries[p])
       ELSE /\ pc' = [pc EXCEPT ![p] = "mkdir_abort"]
            /\ UNCHANGED <<abort, superseded, sleeps, err>>
    /\ UNCHANGED <<locks, i, tries, fresh, leaked, lockdir, abortdir,
                   args, polled>>

\* Line 146: os.mkdir(ABORT_REQUEST_DIR).
MkAbortDir(p) ==
    /\ pc[p] = "mkdir_abort"
    /\ IF abortdir
       THEN /\ pc' = [pc EXCEPT ![p] = "raised"]
            /\ err' = [err EXCEPT ![p] = FileExistsError]
            /\ abortdir' = abortdir
       ELSE /\ pc' = [pc EXCEPT ![p] = "create"]
            /\ abortdir' = TRUE
            /\ err' = err
    /\ UNCHANGED <<locks, i, tries, sleeps, fresh, leaked, lockdir,
                   abort, args, polled, superseded>>

\* Line 147 after line 146 made the directory.
CreateMarker(p) ==
    /\ pc[p] = "create"
    /\ abort' = abort \cup {AbortRequestFileName(Cur(p))}
    /\ superseded' = superseded \ {AbortRequestFileName(Cur(p))}
    /\ RetryOrRaise(p, tries[p])
    /\ UNCHANGED <<locks, i, tries, fresh, leaked, lockdir, abortdir,
                   args, polled>>

\* -------------------------------------------------------- NodeLock.__exit__
\* Mutant of NodeLock_unlock: the handle is not released.
NodeLock_unlock_noop(nl) == nl

\* _unlock: self.lock.release().
NodeLock_unlock(nl) == [nl EXCEPT !.lock = "unlocked"]

\* Mutant of NodeLock_exit: _unlock is not called.
NodeLock_exit_noop(nl) == nl

\* NodeLock.__exit__.
NodeLock_exit(nl) == NodeLock_unlock(nl)

\* The with statement leaves the body, normally or by an exception of the body.
ExitScope(p) ==
    /\ pc[p] = "held"
    /\ \E e \in {"none", "BodyError"} : err' = [err EXCEPT ![p] = e]
    /\ pc' = [pc EXCEPT ![p] = "exit"]
    /\ i' = [i EXCEPT ![p] = 1]
    /\ UNCHANGED <<locks, tries, sleeps, fresh, leaked, lockdir,
                   abortdir, abort, args, polled, superseded>>

\* Mutant of Release: releasing a node also clears its request.
Release_clears_request(p) ==
    /\ pc[p] = "exit"
    /\ locks' = [locks EXCEPT ![p][Iter(locks[p], i[p])] = NodeLock_exit(@)]
    /\ abort' = abort \ {AbortRequestFileName(Cur(p))}
    /\ superseded' = superseded \ {AbortRequestFileName(Cur(p))}
    /\ IF i[p] < Len(locks[p])
       THEN i' = [i EXCEPT ![p] = @ + 1] /\ pc' = pc
       ELSE i' = i /\ pc' = [pc EXCEPT ![p] = "exited"]
    /\ UNCHANGED <<tries, sleeps, fresh, leaked, err, lockdir,
                   abortdir, args, polled>>

\* Mutant of Release: releasing a node drops every lock on its file.
Release_drops_all_holders(p) ==
    /\ pc[p] = "exit"
    /\ locks' = [q \in Procs |->
                    [k \in DOMAIN locks[q] |->
                        IF locks[q][k].inode = Cur(p).inode
                        THEN NodeLock_exit(locks[q][k]) ELSE locks[q][k]]]
    /\ IF i[p] < Len(locks[p])
       THEN i' = [i EXCEPT ![p] = @ + 1] /\ pc' = pc
       ELSE i' = i /\ pc' = [pc EXCEPT ![p] = "exited"]
    /\ UNCHANGED <<tries, sleeps, fresh, leaked, err, lockdir,
                   abortdir, abort, args, polled, superseded>>

\* PathLock.__exit__, lines 61-62: one lock.__exit__() of the loop.
Release(p) ==
    /\ pc[p] = "exit"
    /\ locks' = [locks EXCEPT ![p][Iter(locks[p], i[p])] = NodeLock_exit(@)]
    /\ IF i[p] < Len(locks[p])
       THEN i' = [i EXCEPT ![p] = @ + 1] /\ pc' = pc
       ELSE i' = i /\ pc' = [pc EXCEPT ![p] = "exited"]
    /\ UNCHANGED <<tries, sleeps, fresh, leaked, err, lockdir,
                   abortdir, abort, args, polled, superseded>>

\* NodeLock.abort_requested: os.path.exists of the marker file.
NodeLock_abort_requested(nl, markers) == AbortRequestFileName(nl) \in markers

\* Mutant of PathLock_abort_requested: only the leaf is asked.
PathLock_abort_requested_leaf_only(ls, k, markers) == NodeLock_abort_requested(ls[Len(ls)], markers)

\* PathLock.abort_requested, lines 65-68: the loop from the k-th lock on, which
\* returns True at the first lock that reports a request.
RECURSIVE PathLock_abort_requested(_, _, _)
PathLock_abort_requested(ls, k, markers) ==
    IF k > Len(ls) THEN FALSE
    ELSE IF NodeLock_abort_requested(ls[k], markers) THEN TRUE
    ELSE PathLock_abort_requested(ls, k + 1, markers)

\* The body of the with statement calls PathLock.abort_requested().
Poll(p) ==
    /\ pc[p] = "held"
    /\ polled' = [polled EXCEPT ![p] =
                     IF PathLock_abort_requested(locks[p], 1, abort) THEN "True" ELSE "False"]
    /\ UNCHANGED <<pc, locks, i, tries, sleeps, fresh, leaked, err, lockdir,
                   abortdir, abort, args, superseded>>

\* ---------------------------------------------------------------- callers
\* with PathLock(path, inode_store, ...): construction, then __enter__ begins.
\* The PathLock p had before is abandoned. The handles it still holds are closed
\* when the object is garbage, and stay open when the caller keeps it referenced:
\* at most maxLeaked handles are kept open this way.
Construct(p, menu, maxLeaked) ==
    /\ pc[p] \in {"idle", "exited", "raised"}
    /\ \E a \in menu :
          LET new == PathLock_init(a.path, inode_store, a.exclusive_lock_on_path,
                                   a.exclusive_lock_on_leaf, a.high_priority,
                                   a.acquisition_max_retries)
          IN /\ locks' = [locks EXCEPT ![p] = new]
             /\ args' = [args EXCEPT ![p] = a]
             /\ fresh' = [fresh EXCEPT ![p] =
                             /\ pc[p] = "exited"
                             /\ a = args[p]
                             /\ \A q \in Procs \ {p} : \A h \in Handles(q) \cup leaked[q] :
                                   h.file \notin ChainFiles(new)]
    /\ \E keep \in {{}, Handles(p)} :
          leaked' = [leaked EXCEPT ![p] = @ \cup keep]
    /\ Cardinality(UNION {leaked'[q] : q \in Procs}) <= maxLeaked
    /\ pc' = [pc EXCEPT ![p] = "enter"]
    /\ i' = [i EXCEPT ![p] = 1]
    /\ tries' = [tries EXCEPT ![p] = 0]
    /\ sleeps' = [sleeps EXCEPT ![p] = 0]
    /\ err' = [err EXCEPT ![p] = "none"]
    /\ polled' = [polled EXCEPT ![p] = "none"]
    /\ UNCHANGED <<lockdir, abortdir, abort, superseded>>

\* The abandoned lock objects of p are garbage collected, or p's process ends:
\* their files are closed and the kernel drops the flocks.
Collect(p) ==
    /\ leaked[p] # {}
    /\ leaked' = [leaked EXCEPT ![p] = {}]
    /\ UNCHANGED <<pc, locks, i, tries, sleeps, fresh, err, lockdir,
                   abortdir, abort, args, polled, superseded>>

Step(p) ==
    \/ TryLocking(p)
    \/ MkLockDir(p)
    \/ Flock(p)
    \/ RemoveAbortRequest(p)
    \/ OsRemove(p)
    \/ RequestAbort(p)
    \/ MkAbortDir(p)
    \/ CreateMarker(p)
    \/ ExitScope(p)
    \/ Release(p)

\* Callers that drop a PathLock before they construct the next.
Next == \E p \in Pair : Construct(p, Menu, 0) \/ Step(p)

Spec == Init /\ [][Next]_vars

\* Two processes whose PathLocks are over disjoint trees at all times. The steps
\* that follow a refused flock or a marker found are left out: no flock is
\* refused here, so no marker is ever made and none of them is ever enabled.
NextDisjoint ==
    \E p \in Pair :
        \/ Construct(p, TreeMenu(p), 0)
        \/ TryLocking(p)
        \/ MkLockDir(p)
        \/ Flock(p)
        \/ RemoveAbortRequest(p)
        \/ ExitScope(p)
        \/ Release(p)

SpecDisjoint == Init /\ [][NextDisjoint]_vars

\* Callers that may keep an abandoned PathLock referenced.
NextKeep == \E p \in Pair : Construct(p, KeepMenu, MaxLeaked) \/ Step(p) \/ Collect(p)

SpecKeep == Init /\ [][NextKeep]_vars

\* Three processes.
NextCrowd == \E p \in Procs : Construct(p, CrowdMenu, 0) \/ Step(p)

SpecCrowd == Init /\ [][NextCrowd]_vars

\* Callers that poll abort_requested() in the body.
NextPoll == \E p \in Pair : Construct(p, PollMenu, 0) \/ Step(p) \/ Poll(p)

SpecPoll == Init /\ [][NextPoll]_vars

\* The escalation scenario. p1 takes the path with the default modes; once p1
\* is in its body, p2 tries the same path with high priority and ScenarioRetries
\* retries; p1 polls abort_requested() in its body and leaves it once p2 has
\* given up and a poll has returned True; p3 then takes the path with the
\* default settings. Each spells the path with or without a trailing separator.
ScenarioArgs(hp, r) == {a \in ArgsOver({PathAB, PathABS}, {FALSE}, {TRUE}, {r}) : a.high_priority = hp}

NextScenario ==
    \/ pc["p1"] = "idle" /\ Construct("p1", ScenarioArgs(FALSE, 0), 0)
    \/ pc["p2"] = "idle" /\ pc["p1"] = "held" /\ Construct("p2", ScenarioArgs(TRUE, ScenarioRetries), 0)
    \/ pc["p3"] = "idle" /\ pc["p1"] = "exited" /\ Construct("p3", ScenarioArgs(FALSE, 0), 0)
    \/ Poll("p1")
    \/ pc["p2"] = "raised" /\ polled["p1"] = "True" /\ ExitScope("p1")
    \/ ExitScope("p3")
    \/ \E p \in Procs :
          \/ TryLocking(p)
          \/ MkLockDir(p)
          \/ Flock(p)
          \/ RemoveAbortRequest(p)
          \/ OsRemove(p)
          \/ RequestAbort(p)
          \/ MkAbortDir(p)
          \/ CreateMarker(p)
          \/ Release(p)

SpecScenario == Init /\ [][NextScenario]_vars

\* Construction alone.
NextConstruct == \E p \in Pair : Construct(p, AllArgs, 0)

SpecConstruct == Init /\ [][NextConstruct]_vars

\* The shape of the state.
TypeOK ==
    /\ pc \in [Procs -> {"idle", "enter", "mkdir_lock", "flock", "clear", "remove",
                         "post", "mkdir_abort", "create", "held", "exit", "exited",
                         "raised"}]
    /\ abort \subseteq {<<ABORT_REQUEST_DIR, n>> : n \in Inodes}
    /\ polled \in [Procs -> {"none", "True", "False"}]
    /\ superseded \subseteq abort

\* ------------------------------------------------------------------ claims
\* The step of p is a try-lock attempt: the flock of lines 116-121.
TryLockAttempt(p) ==
    /\ \/ pc[p] = "enter" /\ lockdir
       \/ pc[p] = "flock"
    /\ tries'[p] = tries[p] + 1

\* The step of p is a try-lock attempt that is refused.
TryLockRefused(p) ==
    /\ TryLockAttempt(p)
    /\ locks'[p][Iter(locks[p], i[p])].lock = "unlocked"

\* The holders of every lock file are none, one Exclusive, or Shared ones only.
HoldersCompatible ==
    \A n \in Inodes :
        LET H == Holders(<<LOCKDIR, n>>)
        IN \/ H = {}
           \/ Cardinality(H) = 1 /\ \A ph \in H : ph[2].exclusive
           \/ \A ph \in H : ~ph[2].exclusive

\* A try-lock attempt succeeds exactly when nobody holds the file Exclusive and,
\* for an Exclusive attempt, nobody holds it at all.
AttemptRule ==
    \A p \in Procs :
        TryLockAttempt(p) =>
            LET H == Holders(LockFileName(Cur(p)))
            IN (locks'[p][Iter(locks[p], i[p])].lock = "acquired")
                 <=> /\ \A ph \in H : ~ph[2].exclusive
                     /\ Cur(p).exclusive => H = {}

\* C1: in every reachable state the holders of a resource id are none, exactly one
\* Exclusive holder, or one or more Shared holders; an attempt fails while an
\* Exclusive lock is held, an Exclusive attempt fails while a Shared lock is held,
\* and a Shared attempt against Shared holders only succeeds.
C1_Theorem == []HoldersCompatible /\ [][AttemptRule]_vars

\* Two processes hold the same resource id Shared.
C1_Witness ==
    \E n \in Inodes : \E ph \in Holders(<<LOCKDIR, n>>), qh \in Holders(<<LOCKDIR, n>>) :
        ph[1] # qh[1] /\ ~ph[2].exclusive /\ ~qh[2].exclusive

\* The step of p ends a try-lock attempt that was refused and went on to
\* _request_abort (the lock has high_priority).
RefusedAttemptCompletes(p) ==
    /\ pc[p] \in {"post", "mkdir_abort", "create"}
    /\ pc'[p] \notin {"post", "mkdir_abort", "create"}

\* The step of p ends a try-lock attempt that acquired the lock.
AcquireCompletes(p) ==
    /\ pc[p] \in {"clear", "remove"}
    /\ pc'[p] \notin {"clear", "remove"}

\* C2: when a failed try-lock attempt of a high_priority Node Lock on R completes,
\* abort_requested(R) is true; when a successful acquire on R completes,
\* abort_requested(R) is false.
C2_Claim ==
    [][\A p \in Procs :
         /\ RefusedAttemptCompletes(p) => AbortRequestFileName(Cur(p)) \in abort'
         /\ AcquireCompletes(p) => AbortRequestFileName(Cur(p)) \notin abort']_vars

\* The nodes of p's PathLock whose lock is held.
Acquired(p) == {k \in DOMAIN locks[p] : locks[p][k].lock = "acquired"}

\* C3: when __enter__ of a Path Lock ends in NodeLockedException, the Path Lock
\* holds no lock: the node locks it had acquired were released first.
C3_Claim ==
    \A p \in Procs :
        pc[p] = "raised" /\ err[p] = NodeLockedException => Acquired(p) = {}

\* C4: a Path Lock that was fully acquired and whose scope was left, normally or
\* by an error of the body, holds none of its node locks.
C4_Theorem ==
    \A p \in Procs : pc[p] = "exited" => Acquired(p) = {}

\* The scope of a Path Lock over two nodes was left by an error of the body.
C4_Witness ==
    \E p \in Procs : pc[p] = "exited" /\ err[p] = "BodyError" /\ Len(locks[p]) = 2

\* The inodes of the partial paths of a path, root to leaf, read off the inode
\* store by hand.
ExpectedChain(pth) == IF pth[2] = "a" THEN <<11, 12, 13>> ELSE <<21, 22>>

\* The arguments are the defaults over /a/b/c.
DefaultsOverABC(a) ==
    /\ a.path = PathABC
    /\ ~a.exclusive_lock_on_path /\ a.exclusive_lock_on_leaf
    /\ ~a.high_priority /\ a.acquisition_max_retries = 0

\* C5: a Path Lock constructed over a path of n >= 1 prefixes has n Node Locks in
\* root-to-leaf order, the first n-1 with the mode of exclusive_lock_on_path, the
\* leaf with the mode of exclusive_lock_on_leaf, all with the high_priority and
\* acquisition_max_retries given; the defaults over /a/b/c give a, a/b Shared and
\* a/b/c Exclusive.
C5_Theorem ==
    \A p \in Procs :
        pc[p] = "enter" =>
            LET a == args[p]
                ls == locks[p]
                n == Cardinality({k \in DOMAIN a.path : a.path[k] # "/"})
            IN /\ n >= 1 /\ Len(ls) = n
               /\ \A k \in 1..n :
                     /\ ls[k].inode = ExpectedChain(a.path)[k]
                     /\ ls[k].exclusive =
                            IF k < n THEN a.exclusive_lock_on_path
                            ELSE a.exclusive_lock_on_leaf
                     /\ ls[k].high_priority = a.high_priority
                     /\ ls[k].acquisition_max_retries = a.acquisition_max_retries
                     /\ ls[k].lock = "none"
               /\ DefaultsOverABC(a) =>
                     /\ [k \in 1..3 |-> ls[k].inode] = <<11, 12, 13>>
                     /\ [k \in 1..3 |-> ls[k].exclusive] = <<FALSE, FALSE, TRUE>>

\* A Path Lock was constructed with the defaults over /a/b/c.
C5_Witness ==
    \E p \in Procs : pc[p] = "enter" /\ DefaultsOverABC(args[p])

C7_Theorem ==
    \A p \in Procs :
        fresh[p] /\ pc[p] \notin {"exit", "exited"} =>
            /\ pc[p] \notin {"mkdir_lock", "post", "mkdir_abort", "create", "raised"}
            /\ sleeps[p] = 0 /\ tries[p] <= 1
            /\ \A k \in DOMAIN locks[p] : locks[p][k].lock # "unlocked"

\* Such a Path Lock, with an Exclusive leaf, is fully acquired.
C7_Witness ==
    \E p \in Procs :
        fresh[p] /\ pc[p] = "held" /\ locks[p][Len(locks[p])].exclusive

\* C8: an acquire that ends after a refused try-lock attempt ends in
\* NodeLockedException after acquisition_max_retries + 1 attempts and
\* acquisition_max_retries sleeps.
C8_Claim ==
    \A p \in Procs :
        pc[p] = "raised" /\ Cur(p).lock = "unlocked" =>
            /\ err[p] = NodeLockedException
            /\ tries[p] = Cur(p).acquisition_max_retries + 1
            /\ sleeps[p] = Cur(p).acquisition_max_retries

\* The inodes of the partial paths of the path of p's PathLock.
ChainInodes(p) ==
    LET partials == yield_partials(args[p].path)
    IN {get_inode(inode_store, partials[k]) : k \in DOMAIN partials}

\* p and q have Path Locks over disjoint trees.
Disjoint(p, q) ==
    /\ pc[p] # "idle" /\ pc[q] # "idle"
    /\ ChainInodes(p) \cap ChainInodes(q) = {}

\* The step of p is a refused try-lock attempt, or an error other than
\* NodeLockedException leaves its acquire.
AcquireFails(p) ==
    \/ TryLockRefused(p)
    \/ pc[p] \in {"mkdir_lock", "remove", "mkdir_abort"} /\ pc'[p] = "raised"

\* C9: of two Path Locks over disjoint trees neither has a try-lock attempt
\* refused nor its acquisition ended by an error: both acquire all their nodes on
\* the first attempt.
C9_Claim ==
    [][\A p \in Procs, q \in Procs : p # q /\ Disjoint(p, q) => ~AcquireFails(p)]_vars

\* The path of q's Path Lock is a strict prefix of the path of p's.
StrictPrefix(q, p) ==
    LET short == yield_partials(args[q].path)
        long == yield_partials(args[p].path)
    IN /\ pc[p] # "idle" /\ pc[q] # "idle"
       /\ Len(short) < Len(long)
       /\ \A k \in DOMAIN short : short[k] = long[k]

\* The step of p is a try-lock attempt refused on a file q's Path Lock holds.
BlockedBy(p, q) ==
    /\ TryLockRefused(p)
    /\ \E h \in Handles(q) : h.file = LockFileName(Cur(p))

\* p's Path Lock has the default modes.
DefaultModes(p) ==
    ~args[p].exclusive_lock_on_path /\ args[p].exclusive_lock_on_leaf

\* C10 as claimed: of two Path Locks with the default modes, one path a strict
\* prefix of the other, neither has a try-lock attempt refused because of a lock
\* the other holds.
C10_Claim ==
    [][\A p \in Procs, q \in Procs :
         /\ StrictPrefix(q, p)
         /\ DefaultModes(p) /\ DefaultModes(q)
         => ~BlockedBy(p, q) /\ ~BlockedBy(q, p)]_vars

\* C10 as amended: of two Path Locks, one path a strict prefix of the other,
\* neither has a try-lock attempt refused because of a lock the other holds when
\* both lock the shorter path's nodes Shared: exclusive_lock_on_path is false for
\* both and exclusive_lock_on_leaf is false for the shorter.
C10_Theorem ==
    [][\A p \in Procs, q \in Procs :
         /\ StrictPrefix(q, p)
         /\ ~args[p].exclusive_lock_on_path /\ ~args[q].exclusive_lock_on_path
         /\ ~args[q].exclusive_lock_on_leaf
         => ~BlockedBy(p, q) /\ ~BlockedBy(q, p)]_vars

\* Both such Path Locks are fully acquired at once.
C10_Witness ==
    \E p \in Procs, q \in Procs :
        /\ StrictPrefix(q, p)
        /\ ~args[p].exclusive_lock_on_path /\ ~args[q].exclusive_lock_on_path
        /\ ~args[q].exclusive_lock_on_leaf
        /\ pc[p] = "held" /\ pc[q] = "held"

\* The marker of the leaf of p's PathLock.
LeafMarker(p) == AbortRequestFileName(locks[p][Len(locks[p])])

\* What the escalation scenario has in common as claimed and as amended: p2
\* gives up on the leaf with NodeLockedException and the request is pending
\* then; a poll of p1 after that returns True; p3 is never refused and the
\* request is cleared once p3 holds the path.
ScenarioOutcome ==
    /\ pc["p2"] = "raised" =>
          /\ err["p2"] = NodeLockedException
          /\ i["p2"] = Len(locks["p2"])
          /\ pc["p3"] = "idle" => LeafMarker("p2") \in abort
    /\ pc["p3"] \notin {"post", "mkdir_abort", "create", "raised"}
    /\ pc["p3"] # "idle" => tries["p3"] <= 1
    /\ pc["p3"] \in {"held", "exit", "exited"} => abort = {}

\* p1's poll after p2 gave up returns True.
ScenarioPoll ==
    pc["p2"] = "raised" /\ polled'["p1"] # polled["p1"] => polled'["p1"] = "True"

\* C11 as claimed: in the escalation scenario p2's acquire on the leaf fails three
\* times, the request is posted, p2 raises NodeLockedException, p1 then polls
\* True and releases, p3 acquires the path and the request is cleared.
C11_Claim ==
    /\ [](ScenarioOutcome /\ (pc["p2"] = "raised" => tries["p2"] = 3))
    /\ [][ScenarioPoll]_vars

\* C11 as amended: in the escalation scenario p2's acquire on the leaf fails
\* acquisition_max_retries + 1 times with a sleep between attempts, the request
\* is pending from the first failed attempt on, p2 raises NodeLockedException,
\* p1 then polls True and releases, p3 acquires the path and the request is
\* cleared.
C11_Theorem ==
    /\ [](/\ ScenarioOutcome
          /\ pc["p2"] = "raised" =>
                /\ tries["p2"] = ScenarioRetries + 1
                /\ sleeps["p2"] = ScenarioRetries
          /\ /\ pc["p2"] \in {"enter", "raised"}
             /\ i["p2"] = Len(locks["p2"]) /\ tries["p2"] >= 1
             /\ pc["p3"] = "idle"
             => LeafMarker("p2") \in abort)
    /\ [][ScenarioPoll]_vars

\* The scenario has run: p2 gave up, p1 polled True and released, p3 holds.
C11_Witness ==
    /\ pc["p2"] = "raised" /\ polled["p1"] = "True"
    /\ pc["p1"] = "exited" /\ pc["p3"] = "held"

\* The step is a step of the release of p's PathLock: the body is left, or one
\* node lock is released.
ReleaseStep(p) ==
    /\ pc[p] \in {"held", "exit"}
    /\ pc'[p] \in {"exit", "exited"}
    /\ <<pc[p], i[p]>> # <<pc'[p], i'[p]>>

\* The step is a call of abort_requested() by p that returns another value than
\* the call before it (a call that returns the same value changes nothing).
PollStep(p) == pc[p] = "held" /\ polled'[p] # polled[p]

\* C12: a release of a Node Lock or Path Lock and a call of abort_requested()
\* leave the abort-request registry as it is: a request pending before is
\* pending after.
C12_Theorem ==
    [][\A p \in Procs : ReleaseStep(p) \/ PollStep(p) => abort' = abort]_vars

\* A PathLock that polled True was released and the request on its leaf is
\* still pending.
C12_Witness ==
    \E p \in Procs :
        pc[p] = "exited" /\ polled[p] = "True" /\ LeafMarker(p) \in abort

\* The resource ids of the chain of p's PathLock that have a request pending.
PendingInChain(p) ==
    {k \in DOMAIN locks[p] : AbortRequestFileName(locks[p][k]) \in abort}

\* C13: PathLock.abort_requested() returns true if and only if at least one
\* resource id of the path's chain, ancestor or leaf, has a pending Abort Request
\* when it is called.
C13_Theorem ==
    [][\A p \in Procs :
         PollStep(p) => (polled'[p] = "True" <=> PendingInChain(p) # {})]_vars

\* A PathLock over two nodes polled True while a request was pending on its
\* ancestor only.
C13_Witness ==
    \E p \in Procs :
        /\ pc[p] = "held" /\ polled[p] = "True"
        /\ Len(locks[p]) = 2 /\ PendingInChain(p) = {1}

\* p's last try-lock attempt on its current node was refused and p has high
\* priority: p is a priority waiter that observed contention on the node.
PriorityWaiter(p) ==
    /\ pc[p] \in {"post", "mkdir_abort", "create"}
    /\ Cur(p).high_priority
    /\ Cur(p).lock = "unlocked" /\ tries[p] >= 1

\* C14: an Abort Request for a resource id comes to exist only by a step of a
\* high_priority Node Lock whose try-lock attempt on that id was refused before;
\* only such a Node Lock ever goes on to post a request, and a refused attempt of
\* a Node Lock without high_priority leaves the abort-request registry unchanged.
C14_Theorem ==
    /\ [](\A p \in Procs :
            pc[p] \in {"post", "mkdir_abort", "create"} => PriorityWaiter(p))
    /\ [][/\ \A f \in abort' \ abort :
               \E p \in Procs : PriorityWaiter(p) /\ f = AbortRequestFileName(Cur(p))
          /\ \A p \in Procs :
               TryLockRefused(p) /\ ~Cur(p).high_priority =>
                   /\ abort' = abort
                   /\ pc'[p] \in {"enter", "raised"}]_vars

\* A Node Lock without high_priority gave up on a node that a priority waiter
\* posted a request for.
C14_Witness ==
    \E p \in Procs, q \in Procs :
        /\ pc[p] = "raised" /\ ~Cur(p).high_priority /\ Cur(p).lock = "unlocked"
        /\ pc[q] = "raised" /\ Cur(q).high_priority
        /\ Cur(q).inode = Cur(p).inode
        /\ AbortRequestFileName(Cur(q)) \in abort

\* C15: setting and clearing an Abort Request never fail, under every
\* interleaving: no step of the clearing of lines 140-142 and no step of the
\* posting of line 147 ends in an error of the registry (the creation of the
\* registry itself is the matter of C16).
C15_Claim ==
    [][\A p \in Procs :
         pc[p] \in {"clear", "remove", "post", "create"} /\ pc'[p] = "raised"
         => err'[p] = NodeLockedException]_vars

\* C16: the lazy creation of the lock registry and of the abort-request registry
\* never fails, also when two processes both found the registry absent and both
\* create it.
C16_Claim ==
    [][\A p \in Procs :
         pc[p] \in {"mkdir_lock", "mkdir_abort"} => pc'[p] # "raised"]_vars

\* C17: the acquire of a Node Lock never ends in an error while its primitive
\* lock is held.
C17_Claim ==
    \A p \in Procs : pc[p] = "raised" => Cur(p).lock # "acquired"

\* C18: the acquisition of a Path Lock makes at most acquisition_max_retries + 1
\* try-lock attempts on each of its nodes and ends either holding all its nodes
\* or in NodeLockedException.
C18_Claim ==
    \A p \in Procs :
        pc[p] # "idle" =>
            /\ tries[p] <= Cur(p).acquisition_max_retries + 1
            /\ pc[p] = "held" => Acquired(p) = DOMAIN locks[p]
            /\ pc[p] = "raised" => err[p] = NodeLockedException

\* C19: a pending Abort Request is erased only after a try-lock on its node has
\* succeeded since it was posted: from the failed high-priority attempt that
\* posted it until the next successful try-lock on the node it stays pending,
\* and the clearing step of a holder whose try-lock succeeded before the request
\* was posted does not erase it.
C19_Claim ==
    [][abort \ abort' \subseteq superseded]_vars

\* The lock files.
LockFiles == {<<LOCKDIR, n>> : n \in Inodes}

\* The step is the release of one node lock of p's PathLock.
NodeReleaseStep(p) == pc[p] = "exit" /\ locks'[p] # locks[p]

\* C20: when a holder releases a node lock, every other holder of that resource
\* id still holds it, so that an Exclusive try-lock on it is still refused, and
\* the holders of every other resource id are unchanged: the release takes away
\* the releasing holder's own handle and nothing else.
C20_Theorem ==
    [][\A p \in Procs :
         NodeReleaseStep(p) =>
             LET own == <<p, Handle(Cur(p))>>
                 wanted == NodeLock(Cur(p).inode, TRUE, 0, FALSE)
             IN /\ \A f \in LockFiles : Holders(f)' = Holders(f) \ {own}
                /\ Holders(LockFileName(Cur(p))) \ {own} # {} => Conflicting(wanted)' # {}]_vars

\* A Shared holder has released a resource id that another process still holds
\* Shared.
C20_Witness ==
    \E p \in Procs : \E q \in Procs \ {p} :
        \E k \in DOMAIN locks[p] : \E j \in DOMAIN locks[q] :
            /\ pc[p] \in {"exit", "exited"}
            /\ locks[p][k].lock = "unlocked" /\ ~locks[p][k].exclusive
            /\ locks[q][j].lock = "acquired" /\ ~locks[q][j].exclusive
            /\ locks[q][j].inode = locks[p][k].inode

=============================================================================
